---- MODULE Spec2Model ----
(***************************************************************************)
(* doc-quiz-checker (src/src/index.ts): parseFile, compareAnswers, main.    *)
(* Strings are sequences of one-character strings, so that the regular     *)
(* expressions, trim, split, toLowerCase, sort and JSON.stringify of the    *)
(* source are computed character by character.                              *)
(***************************************************************************)
EXTENDS Integers, Sequences, FiniteSets, TLC

VARIABLES
    pc,                     \* position of the run
    argv, dirState, qFile, aFile, doc1, doc2,   \* process arguments, file system, documents
    lines, lineIdx, questions,                  \* parseFile: lines, forEach position, questions
    file1, file2, suppressUnansweredLog,        \* compareAnswers: parameters
    questionMap, index, correct, incorrect, unanswered,   \* compareAnswers: locals
    verdicts,                                   \* the classification of each reference question
    console, summary,                           \* console output, the summary table
    calls, exitCode                             \* calls made by main, process exit status

vars == <<pc, argv, dirState, qFile, aFile, doc1, doc2, lines, lineIdx, questions,
          file1, file2, suppressUnansweredLog, questionMap, index, correct, incorrect,
          unanswered, verdicts, console, summary, calls, exitCode>>

mainVars == <<argv, dirState, qFile, aFile, doc1, doc2, calls, exitCode>>
parseVars == <<lines, lineIdx, questions>>
compareVars == <<file1, file2, suppressUnansweredLog, questionMap, index, correct,
                 incorrect, unanswered, verdicts, summary>>

----------------------------------------------------------------------------
(* Characters *)

Digits == {"0", "1", "2", "3", "4", "5", "6", "7", "8", "9"}
UpperCase == {"A", "B", "C", "D", "E", "F", "G", "H", "I", "J", "K", "L", "M",
              "N", "O", "P", "Q", "R", "S", "T", "U", "V", "W", "X", "Y", "Z"}
WhiteSpace == {" ", "\t"}

IsDigit(c) == c \in Digits
IsUpper(c) == c \in UpperCase
IsSpace(c) == c \in WhiteSpace

\* UTF-16 code units of the characters the model uses
CharCode(c) ==
    CASE c = "\t" -> 9   [] c = " " -> 32  [] c = "*" -> 42  [] c = "." -> 46
      [] c = "1" -> 49   [] c = "2" -> 50  [] c = ":" -> 58  [] c = ";" -> 59
      [] c = "=" -> 61   [] c = "?" -> 63  [] c = "A" -> 65  [] c = "B" -> 66
      [] c = "Q" -> 81   [] c = "R" -> 82  [] c = "X" -> 88  [] c = "Y" -> 89
      [] c = "[" -> 91   [] c = "]" -> 93  [] c = "a" -> 97  [] c = "b" -> 98
      [] c = "q" -> 113  [] c = "r" -> 114 [] c = "x" -> 120 [] c = "y" -> 121

LowerChar(c) ==
    CASE c = "A" -> "a" [] c = "B" -> "b" [] c = "Q" -> "q" [] c = "R" -> "r"
      [] c = "X" -> "x" [] c = "Y" -> "y" [] OTHER -> c

----------------------------------------------------------------------------
(* String helpers *)

Drop(s, n) == SubSeq(s, n + 1, Len(s))
Take(s, n) == SubSeq(s, 1, n)

\* number of leading characters of s that satisfy the class
LeadingDigits(s) ==
    IF \A i \in 1..Len(s) : IsDigit(s[i]) THEN Len(s)
    ELSE (CHOOSE i \in 1..Len(s) : ~IsDigit(s[i]) /\ \A j \in 1..(i - 1) : IsDigit(s[j])) - 1

LeadingSpaces(s) ==
    IF \A i \in 1..Len(s) : IsSpace(s[i]) THEN Len(s)
    ELSE (CHOOSE i \in 1..Len(s) : ~IsSpace(s[i]) /\ \A j \in 1..(i - 1) : IsSpace(s[j])) - 1

TrailingSpaces(s) ==
    IF \A i \in 1..Len(s) : IsSpace(s[i]) THEN Len(s)
    ELSE Len(s) - (CHOOSE i \in 1..Len(s) : ~IsSpace(s[i]) /\ \A j \in (i + 1)..Len(s) : IsSpace(s[j]))

\* String.prototype.trim
Trim(s) ==
    IF LeadingSpaces(s) = Len(s) THEN <<>>
    ELSE SubSeq(s, LeadingSpaces(s) + 1, Len(s) - TrailingSpaces(s))

----------------------------------------------------------------------------
(* parseFile *)

AllSpaces(s) == \A i \in 1..Len(s) : IsSpace(s[i])

\* line.match(/^(\d+\.)\s+(.*?[?:])\s*(A\..*)$/): the candidates are the pairs
\* <<w, e>> of the length of \s+ and the end of the lazy group 2; the backtracking
\* order prefers the longest \s+ (greedy) and then the shortest group 2 (lazy).
QuestionCandidates(line) ==
    LET n == LeadingDigits(line)
    IN  IF n < 1 \/ Len(line) < n + 1 \/ line[n + 1] # "." THEN {}
        ELSE { c \in (1..LeadingSpaces(Drop(line, n + 1))) \X (1..Len(line)) :
                 LET e == c[2]
                     a == e + LeadingSpaces(Drop(line, e)) + 1
                 IN  /\ e >= n + 2 + c[1]
                     /\ line[e] \in {"?", ":"}
                     /\ a + 1 <= Len(line)
                     /\ line[a] = "A"
                     /\ line[a + 1] = "." }

MatchQuestion(line) ==
    LET cands == QuestionCandidates(line)
    IN  IF cands = {} THEN [matched |-> FALSE, m1 |-> <<>>, m2 |-> <<>>, m3 |-> <<>>]
        ELSE LET n == LeadingDigits(line)
                 c == CHOOSE x \in cands :
                        \A y \in cands : x[1] > y[1] \/ (x[1] = y[1] /\ x[2] <= y[2])
                 e == c[2]
                 a == e + LeadingSpaces(Drop(line, e)) + 1
             IN  [matched |-> TRUE,
                  m1 |-> Take(line, n + 1),
                  m2 |-> SubSeq(line, n + 2 + c[1], e),
                  m3 |-> Drop(line, a - 1)]

\* optionsText.split(/(?=[A-Z]\.)/): a cut before every capital letter followed by
\* '.', except at the start of a piece
RECURSIVE SplitOptions(_)
SplitOptions(s) ==
    LET cuts == { i \in 2..(Len(s) - 1) : IsUpper(s[i]) /\ s[i + 1] = "." }
    IN  IF cuts = {} THEN <<s>>
        ELSE LET i == CHOOSE x \in cuts : \A y \in cuts : x <= y
             IN  <<Take(s, i - 1)>> \o SplitOptions(Drop(s, i - 1))

\* the rest of /([;=]?)\s*$/
MarkerTail(t) ==
    \/ AllSpaces(t)
    \/ Len(t) >= 1 /\ t[1] \in {";", "="} /\ AllSpaces(Drop(t, 1))

\* option.match(/^([A-Z])\.\s*(.*?)([;=]?)\s*$/) and the Option built from it
ParseOption(option) ==
    IF Len(option) < 2 \/ ~IsUpper(option[1]) \/ option[2] # "."
    THEN [matched |-> FALSE, text |-> <<>>, isCorrect |-> FALSE]
    ELSE LET r == Drop(option, 2 + LeadingSpaces(Drop(option, 2)))
             g2 == CHOOSE n \in 0..Len(r) :
                      /\ MarkerTail(Drop(r, n))
                      /\ \A m \in 0..(n - 1) : ~MarkerTail(Drop(r, m))
             tail == Drop(r, g2)
             g3 == IF Len(tail) >= 1 /\ tail[1] \in {";", "="} /\ AllSpaces(Drop(tail, 1))
                   THEN <<tail[1]>> ELSE <<>>
         IN  [matched |-> TRUE,
              text |-> <<option[1], ".", " ">> \o Trim(Take(r, g2)),
              isCorrect |-> (g3 = <<"=">>)]

\* .map(...).filter(Boolean)
RECURSIVE ParseOptions(_)
ParseOptions(pieces) ==
    IF pieces = <<>> THEN <<>>
    ELSE LET o == ParseOption(Head(pieces))
         IN  (IF o.matched THEN <<[text |-> o.text, isCorrect |-> o.isCorrect]>> ELSE <<>>)
             \o ParseOptions(Tail(pieces))

\* the forEach callback of parseFile
ParseLineOp(qs, line) ==
    LET m == MatchQuestion(line)
    IN  IF m.matched
        THEN Append(qs, [question |-> m.m1 \o <<" ">> \o Trim(m.m2),
                         options |-> ParseOptions(SplitOptions(m.m3))])
        ELSE qs

\* lines.forEach(...)
RECURSIVE ParseLines(_, _)
ParseLines(qs, ls) ==
    IF ls = <<>> THEN qs ELSE ParseLines(ParseLineOp(qs, Head(ls)), Tail(ls))

----------------------------------------------------------------------------
(* compareAnswers *)

\* q.question.split(" ")[0]
Token(question) ==
    IF \A i \in 1..Len(question) : question[i] # " " THEN question
    ELSE Take(question, (CHOOSE i \in 1..Len(question) :
                            question[i] = " " /\ \A j \in 1..(i - 1) : question[j] # " ") - 1)

\* variant of MapSet: the first entry with a key is kept
MapSetKeepsFirst(m, k, v) == m @@ (k :> v)

\* Map.prototype.set: a later entry replaces an earlier one with the same key
MapSet(m, k, v) == (k :> v) @@ m

\* new Map(file2.map((q) => [q.question.split(" ")[0], q])), the first n entries
RECURSIVE MapOfFirst(_, _)
MapOfFirst(f2, n) ==
    IF n = 0 THEN <<>>
    ELSE MapSet(MapOfFirst(f2, n - 1), Token(f2[n].question), f2[n])

QuestionMap(f2) == MapOfFirst(f2, Len(f2))

getCorrectAnswerTexts(q) ==
    LET flagged == SelectSeq(q.options, LAMBDA o : o.isCorrect)
    IN  [i \in 1..Len(flagged) |-> flagged[i].text]

\* variant of ToLowerCase: the letter case is kept
ToLowerCaseSkipped(s) == s

\* String.prototype.toLowerCase
ToLowerCase(s) == [i \in 1..Len(s) |-> LowerChar(s[i])]

\* the order of Array.prototype.sort without a comparator: by UTF-16 code units
StrLess(a, b) ==
    \E i \in 1..(Len(a) + 1) :
        /\ \A j \in 1..(i - 1) : j <= Len(b) /\ a[j] = b[j]
        /\ i <= Len(b)
        /\ (i = Len(a) + 1 \/ CharCode(a[i]) < CharCode(b[i]))

RECURSIVE Insert(_, _)
Insert(sorted, x) ==
    IF sorted = <<>> THEN <<x>>
    ELSE IF StrLess(x, Head(sorted)) THEN <<x>> \o sorted
    ELSE <<Head(sorted)>> \o Insert(Tail(sorted), x)

\* variant of Sort: the array is left in its order
SortSkipped(arr) == arr

RECURSIVE Sort(_)
Sort(arr) ==
    IF arr = <<>> THEN <<>> ELSE Insert(Sort(Take(arr, Len(arr) - 1)), arr[Len(arr)])

\* JSON.stringify of an array of strings (no character of the model needs an escape)
RECURSIVE JoinQuoted(_)
JoinQuoted(arr) ==
    IF arr = <<>> THEN <<>>
    ELSE <<"\"">> \o Head(arr) \o <<"\"">>
         \o (IF Len(arr) > 1 THEN <<",">> ELSE <<>>) \o JoinQuoted(Tail(arr))

JSONStringify(arr) == <<"[">> \o JoinQuoted(arr) \o <<"]">>

\* correctAnswerTexts.map((a) => a.toLowerCase()).sort(), stringified
SortedLowerKey(texts) ==
    JSONStringify(Sort([i \in 1..Len(texts) |-> ToLowerCase(texts[i])]))

\* variant of Classification: the texts are compared before the empty selection is tested
ClassificationComparesFirst(q1, qmap) ==
    IF Token(q1.question) \notin DOMAIN qmap THEN "missing"
    ELSE LET userAnswerTexts == getCorrectAnswerTexts(qmap[Token(q1.question)])
         IN  IF SortedLowerKey(getCorrectAnswerTexts(q1)) = SortedLowerKey(userAnswerTexts)
             THEN "correct"
             ELSE IF Len(userAnswerTexts) = 0 THEN "unanswered"
             ELSE "incorrect"

\* the branch the forEach callback takes for q1
Classification(q1, qmap) ==
    IF Token(q1.question) \notin DOMAIN qmap THEN "missing"
    ELSE LET userAnswerTexts == getCorrectAnswerTexts(qmap[Token(q1.question)])
         IN  IF Len(userAnswerTexts) = 0 THEN "unanswered"
             ELSE IF SortedLowerKey(getCorrectAnswerTexts(q1)) = SortedLowerKey(userAnswerTexts)
                  THEN "correct"
                  ELSE "incorrect"

\* variant of Counter: a question without counterpart is counted nowhere
CounterSkipsMissing(class) == class

\* the counter the branch increments
Counter(class) == IF class = "missing" THEN "unanswered" ELSE class

\* variant of Emission: the flag also hides the warning of a missing counterpart
EmissionSuppressesWarnings(q1, qmap, suppress) ==
    LET class == Classification(q1, qmap)
    IN  IF class = "missing"
        THEN IF suppress THEN <<>> ELSE <<[tag |-> "[!]", question |-> q1.question]>>
        ELSE LET q2 == qmap[Token(q1.question)]
             IN  IF class = "unanswered"
                 THEN IF suppress THEN <<>>
                      ELSE <<[tag |-> "[U]", question |-> q2.question,
                              options |-> [i \in 1..Len(q2.options) |->
                                              q2.options[i].text \o <<";">>]]>>
                 ELSE IF class = "correct" THEN <<>>
                 ELSE <<[tag |-> "[X]", question |-> q1.question,
                         yours |-> getCorrectAnswerTexts(q2),
                         answers |-> getCorrectAnswerTexts(q1)]>>

\* the console.log of the branch: a sequence of zero or one blocks
Emission(q1, qmap, suppress) ==
    LET class == Classification(q1, qmap)
    IN  IF class = "missing" THEN <<[tag |-> "[!]", question |-> q1.question]>>
        ELSE LET q2 == qmap[Token(q1.question)]
             IN  IF class = "unanswered"
                 THEN IF suppress THEN <<>>
                      ELSE <<[tag |-> "[U]", question |-> q2.question,
                              options |-> [i \in 1..Len(q2.options) |->
                                              q2.options[i].text \o <<";">>]]>>
                 ELSE IF class = "correct" THEN <<>>
                 ELSE <<[tag |-> "[X]", question |-> q1.question,
                         yours |-> getCorrectAnswerTexts(q2),
                         answers |-> getCorrectAnswerTexts(q1)]>>

\* (correct / totalQuestions) * 100 rendered by toFixed(1), in tenths of a percent
CorrectPercentage(c, total) ==
    IF total = 0 THEN 0 ELSE (2000 * c + total) \div (2 * total)

SummaryTable(c, i, u) ==
    [total |-> c + i + u, correct |-> c, incorrect |-> i, unanswered |-> u,
     percentage |-> CorrectPercentage(c, c + i + u)]

NoSummary == [total |-> -1]

\* entry of compareAnswers: the counters and the lookup table
CompareBegin ==
    /\ pc = "compareAnswers"
    /\ correct' = 0
    /\ incorrect' = 0
    /\ unanswered' = 0
    /\ questionMap' = QuestionMap(file2)
    /\ index' = 0
    /\ verdicts' = <<>>
    /\ calls' = Append(calls, "compareAnswers")
    /\ pc' = "forEach"
    /\ UNCHANGED <<argv, dirState, qFile, aFile, doc1, doc2, exitCode, parseVars,
                   file1, file2, suppressUnansweredLog, console, summary>>

\* one call of the forEach callback
CompareStep ==
    /\ pc = "forEach"
    /\ index < Len(file1)
    /\ LET q1 == file1[index + 1]
           class == Classification(q1, questionMap)
       IN  /\ correct' = correct + (IF Counter(class) = "correct" THEN 1 ELSE 0)
           /\ incorrect' = incorrect + (IF Counter(class) = "incorrect" THEN 1 ELSE 0)
           /\ unanswered' = unanswered + (IF Counter(class) = "unanswered" THEN 1 ELSE 0)
           /\ verdicts' = Append(verdicts, class)
           /\ console' = console \o Emission(q1, questionMap, suppressUnansweredLog)
    /\ index' = index + 1
    /\ UNCHANGED <<pc, mainVars, parseVars, file1, file2, suppressUnansweredLog,
                   questionMap, summary>>

\* after the loop: the summary table
CompareSummary ==
    /\ pc = "forEach"
    /\ index = Len(file1)
    /\ summary' = SummaryTable(correct, incorrect, unanswered)
    /\ console' = Append(console, [tag |-> "Summary"])
    /\ pc' = "returned"
    /\ UNCHANGED <<mainVars, parseVars, file1, file2, suppressUnansweredLog, questionMap,
                   index, correct, incorrect, unanswered, verdicts>>

----------------------------------------------------------------------------
(* parseFile, line by line *)

NoQuestionsWarning == [tag |-> "warn", text |-> "No valid questions found"]

\* one call of the forEach callback of parseFile
ParseLine ==
    /\ pc = "parseFile"
    /\ lineIdx < Len(lines)
    /\ questions' = ParseLineOp(questions, lines[lineIdx + 1])
    /\ lineIdx' = lineIdx + 1
    /\ UNCHANGED <<pc, mainVars, compareVars, lines, console>>

\* after the loop: the warning, and the return
ParseReturn ==
    /\ pc = "parseFile"
    /\ lineIdx = Len(lines)
    /\ console' = IF Len(questions) = 0 THEN Append(console, NoQuestionsWarning) ELSE console
    /\ pc' = "parsed"
    /\ UNCHANGED <<mainVars, compareVars, parseVars>>

----------------------------------------------------------------------------
(* main *)

IsDirectoryArg(arg) == arg \in {"directory=docs", "directory="}

\* args.find((arg) => arg.startsWith("directory="))?.split("=")[1]
FolderPath(args) ==
    LET hits == { i \in 1..Len(args) : IsDirectoryArg(args[i]) }
    IN  IF hits = {} THEN "undefined"
        ELSE LET first == CHOOSE i \in hits : \A j \in hits : i <= j
             IN  IF args[first] = "directory=docs" THEN "docs" ELSE ""

\* args.some((arg) => arg === "nolog=unanswered")
SuppressFlag(args) == \E i \in 1..Len(args) : args[i] = "nolog=unanswered"

\* !folderPath
FolderMissing(args) == FolderPath(args) \in {"undefined", ""}

\* !fs.existsSync(resolvedFolderPath) || !fs.statSync(resolvedFolderPath).isDirectory()
NotADirectory(d) == d = "missing" \/ d # "dir"

\* variant of FileMissing: only the absence of both files is fatal
FileMissingNeedsBoth(q, a) == q = "missing" /\ a = "missing"

\* !fs.existsSync(questionFilePath) || !fs.existsSync(answerFilePath)
FileMissing(q, a) == q = "missing" \/ a = "missing"

Exit(code, message) ==
    /\ exitCode' = code
    /\ console' = Append(console, message)
    /\ pc' = "exited"

\* args.length === 0: usage, process.exit(0)
MainArgs ==
    /\ pc = "main"
    /\ IF Len(argv) = 0
       THEN Exit(0, [tag |-> "usage"])
       ELSE pc' = "folder" /\ UNCHANGED <<exitCode, console>>
    /\ UNCHANGED <<argv, dirState, qFile, aFile, doc1, doc2, calls, parseVars, compareVars>>

\* folderPath and suppressUnansweredLog; no folder path: process.exit(1)
MainFolder ==
    /\ pc = "folder"
    /\ suppressUnansweredLog' = SuppressFlag(argv)
    /\ IF FolderMissing(argv)
       THEN Exit(1, [tag |-> "error", text |-> "Please provide a folder path"])
       ELSE pc' = "directory" /\ UNCHANGED <<exitCode, console>>
    /\ UNCHANGED <<argv, dirState, qFile, aFile, doc1, doc2, calls, parseVars, file1, file2,
                   questionMap, index, correct, incorrect, unanswered, verdicts, summary>>

\* the path is no directory: process.exit(1)
MainDirectory ==
    /\ pc = "directory"
    /\ IF NotADirectory(dirState)
       THEN Exit(1, [tag |-> "error", text |-> "not a valid directory"])
       ELSE pc' = "files" /\ UNCHANGED <<exitCode, console>>
    /\ UNCHANGED <<argv, dirState, qFile, aFile, doc1, doc2, calls, parseVars, compareVars>>

\* questions.docx or answers.docx is absent: process.exit(1)
MainFiles ==
    /\ pc = "files"
    /\ IF FileMissing(qFile, aFile)
       THEN Exit(1, [tag |-> "error", text |-> "Both files must be present"])
       ELSE pc' = "parse1" /\ UNCHANGED <<exitCode, console>>
    /\ UNCHANGED <<argv, dirState, qFile, aFile, doc1, doc2, calls, parseVars, compareVars>>

\* what parseFile logs for the document
ParseWarnings(doc) ==
    IF Len(ParseLines(<<>>, doc)) = 0 THEN <<NoQuestionsWarning>> ELSE <<>>

\* const file1 = await parseFile(questionFilePath): the extraction throws or the
\* lines are parsed
MainParse1 ==
    /\ pc = "parse1"
    /\ calls' = Append(calls, "parseFile(questions.docx)")
    /\ IF qFile # "ok"
       THEN pc' = "catch" /\ UNCHANGED <<file1, console>>
       ELSE /\ file1' = ParseLines(<<>>, doc1)
            /\ console' = console \o ParseWarnings(doc1)
            /\ pc' = "parse2"
    /\ UNCHANGED <<argv, dirState, qFile, aFile, doc1, doc2, exitCode, parseVars, file2,
                   suppressUnansweredLog, questionMap, index, correct, incorrect,
                   unanswered, verdicts, summary>>

\* const file2 = await parseFile(answerFilePath), then the call of compareAnswers
MainParse2 ==
    /\ pc = "parse2"
    /\ calls' = Append(calls, "parseFile(answers.docx)")
    /\ IF aFile # "ok"
       THEN pc' = "catch" /\ UNCHANGED <<file2, console>>
       ELSE /\ file2' = ParseLines(<<>>, doc2)
            /\ console' = console \o ParseWarnings(doc2)
            /\ pc' = "compareAnswers"
    /\ UNCHANGED <<argv, dirState, qFile, aFile, doc1, doc2, exitCode, parseVars, file1,
                   suppressUnansweredLog, questionMap, index, correct, incorrect,
                   unanswered, verdicts, summary>>

\* catch (error): two console.error lines, main returns
MainCatch ==
    /\ pc = "catch"
    /\ console' = console \o <<[tag |-> "error", text |-> "An error occurred"],
                               [tag |-> "error", text |-> "Stack trace"]>>
    /\ pc' = "returned"
    /\ UNCHANGED <<mainVars, parseVars, compareVars>>

\* main has returned: the process ends with status 0
MainExit ==
    /\ pc = "returned"
    /\ exitCode' = 0
    /\ pc' = "exited"
    /\ UNCHANGED <<argv, dirState, qFile, aFile, doc1, doc2, calls, parseVars, compareVars,
                   console>>

----------------------------------------------------------------------------
(* Inputs *)

MaxRef == 2
MaxSub == 2
MaxOptions == 2
MaxLines == 3
MaxArgs == 2

SeqsFromTo(S, lo, hi) == UNION { [1..k -> S] : k \in lo..hi }

\* question texts: two with the numeral token "1.", one with the token "2."
QText1Q == <<"1", ".", " ", "Q", "?">>
QText1R == <<"1", ".", " ", "R", "?">>
QText2Q == <<"2", ".", " ", "Q", "?">>

\* option texts: a text, the same in another letter case, the same with a repeated blank
OptXy == <<"A", ".", " ", "X", " ", "y">>
OptLower == <<"A", ".", " ", "x", " ", "y">>
OptWide == <<"A", ".", " ", "x", " ", " ", "y">>

\* lists of several questions over the numeral tokens "1." and "2."; the submitted
\* question of the token "1." has another text than the reference question
OneOption(b) == <<[text |-> OptXy, isCorrect |-> b]>>
RefListQuestions ==
    { [question |-> t, options |-> OneOption(b)] : t \in {QText1Q, QText2Q}, b \in BOOLEAN }
SubListQuestions ==
    { [question |-> t, options |-> OneOption(b)] : t \in {QText1R, QText2Q}, b \in BOOLEAN }

\* one reference question against at most one submitted question, over all option
\* lists of one to MaxOptions options
PairOptions ==
    [text : {OptXy, OptLower, OptWide}, isCorrect : {TRUE}]
    \cup {[text |-> OptXy, isCorrect |-> FALSE]}
PairOptionLists == SeqsFromTo(PairOptions, 1, MaxOptions)

ComparePairs ==
    (SeqsFromTo(RefListQuestions, 0, MaxRef) \X SeqsFromTo(SubListQuestions, 0, MaxSub))
    \cup ({ <<[question |-> QText1Q, options |-> os]>> : os \in PairOptionLists }
          \X ({<<>>} \cup { <<[question |-> QText1R, options |-> os]>> :
                              os \in PairOptionLists }))

IdleMain ==
    /\ argv = <<>> /\ dirState = "dir" /\ qFile = "ok" /\ aFile = "ok"
    /\ doc1 = <<>> /\ doc2 = <<>> /\ calls = <<>> /\ exitCode = -1

IdleParse == lines = <<>> /\ lineIdx = 0 /\ questions = <<>>

IdleCompare ==
    /\ questionMap = <<>> /\ index = 0 /\ correct = 0 /\ incorrect = 0 /\ unanswered = 0
    /\ verdicts = <<>> /\ summary = NoSummary

\* compareAnswers on a pair of question lists
Init ==
    /\ pc = "compareAnswers"
    /\ \E p \in ComparePairs : file1 = p[1] /\ file2 = p[2]
    /\ suppressUnansweredLog \in BOOLEAN
    /\ console = <<>>
    /\ IdleMain /\ IdleParse /\ IdleCompare

Next == CompareBegin \/ CompareStep \/ CompareSummary

Spec == Init /\ [][Next]_vars

----------------------------------------------------------------------------
(* parseFile on a sequence of lines *)

QStart1 == <<"1", ".", " ", "Q", "?">>
QStart2 == <<"2", ".", " ", "Q", ":">>
Sentinel == <<";", "[", "*", "]">>

\* the endings of an option token, by marker convention: unselected, selected
Conventions ==
    { <<<<>>, <<"=">>>>,
      <<<<";">>, <<";", " ", "=">>>>,
      <<Sentinel, Sentinel \o <<" ", "=">>>> }
Endings == UNION { {c[1], c[2]} : c \in Conventions }

OptA(e) == <<"A", ".", " ", "x">> \o e
OptB(e) == <<"B", ".", " ", "y">> \o e

LineSet ==
    {QStart1, QStart2, <<"x">>, <<>>}
    \cup { OptA(e) : e \in Endings }
    \cup { OptB(e) : e \in Endings }
    \cup { QStart1 \o <<" ">> \o OptA(e) : e \in Endings }
    \cup { QStart1 \o <<" ">> \o OptA(c[i]) \o OptB(c[j]) :
             c \in Conventions, i \in {1, 2}, j \in {1, 2} }

InitParse ==
    /\ pc = "parseFile"
    /\ lines \in SeqsFromTo(LineSet, 0, MaxLines)
    /\ lineIdx = 0
    /\ questions = <<>>
    /\ console = <<>>
    /\ file1 = <<>> /\ file2 = <<>> /\ suppressUnansweredLog = FALSE
    /\ IdleMain /\ IdleCompare

NextParse == ParseLine \/ ParseReturn

SpecParse == InitParse /\ [][NextParse]_vars

----------------------------------------------------------------------------
(* main on a command line, a file system and two documents *)

ArgSet == {"directory=docs", "directory=", "nolog=unanswered"}

\* one line with the question and its options, as the text extraction yields it
DocLine(q, ea, eb) == q \o <<" ">> \o OptA(ea) \o OptB(eb)
DocLines ==
    { DocLine(QStart1, <<";">>, <<";", " ", "=">>),
      DocLine(QStart1, <<";", " ", "=">>, <<";">>),
      DocLine(QStart1, <<";">>, <<";">>) }
Docs ==
    {<<>>} \cup { <<l>> : l \in DocLines }
    \cup { <<l, DocLine(QStart2, <<";", " ", "=">>, <<";">>)>> : l \in DocLines }

FileStates == {"missing", "corrupt", "ok"}

InitMain ==
    /\ pc = "main"
    /\ argv \in SeqsFromTo(ArgSet, 0, MaxArgs)
    /\ dirState \in {"missing", "file", "dir"}
    /\ qFile \in (IF dirState = "dir" THEN FileStates ELSE {"missing"})
    /\ aFile \in (IF dirState = "dir" THEN FileStates ELSE {"missing"})
    /\ doc1 \in (IF qFile = "ok" THEN Docs ELSE {<<>>})
    /\ doc2 \in (IF aFile = "ok" THEN Docs ELSE {<<>>})
    /\ calls = <<>>
    /\ exitCode = -1
    /\ console = <<>>
    /\ file1 = <<>> /\ file2 = <<>> /\ suppressUnansweredLog = FALSE
    /\ IdleParse /\ IdleCompare

NextMain ==
    \/ MainArgs \/ MainFolder \/ MainDirectory \/ MainFiles
    \/ MainParse1 \/ MainParse2 \/ MainCatch \/ MainExit
    \/ CompareBegin \/ CompareStep \/ CompareSummary

SpecMain == InitMain /\ [][NextMain]_vars

----------------------------------------------------------------------------
(* Vocabulary of the properties *)

\* the forEach callback has just handled the reference question file1[index]
JustProcessed == pc = "forEach" /\ index >= 1
Ref == file1[index]

Max(S) == CHOOSE x \in S : \A y \in S : y <= x

\* the submitted questions with the numeral token of q1, and the last of them
CounterpartsOf(q1) ==
    { i \in 1..Len(file2) : Token(file2[i].question) = Token(q1.question) }
LastCounterpartOf(q1) == file2[Max(CounterpartsOf(q1))]

Flagged(q) == { i \in 1..Len(q.options) : q.options[i].isCorrect }

\* the permutations of 1..n, for every length of a list of the model
LongestList == IF MaxOptions > MaxSub THEN MaxOptions ELSE MaxSub
BijectionTable ==
    [n \in 0..LongestList |->
        { f \in [1..n -> 1..n] : \A i, j \in 1..n : f[i] = f[j] => i = j }]
Bijections(n) == BijectionTable[n]
Permuted(seq, f) == [i \in 1..Len(seq) |-> seq[f[i]]]
WithOptions(q, os) == [question |-> q.question, options |-> os]

\* case folding and whitespace normalization of a text
Folded(text) == [i \in 1..Len(text) |-> LowerChar(text[i])]
RECURSIVE Collapsed(_)
Collapsed(text) ==
    IF Len(text) <= 1 THEN text
    ELSE IF IsSpace(text[1]) /\ IsSpace(text[2]) THEN Collapsed(Tail(text))
    ELSE <<Head(text)>> \o Collapsed(Tail(text))
Normalized(text) == Collapsed(Trim(Folded(text)))

\* how many flagged options of q have the text t after the conversion
FlaggedCount(q, Conv(_), t) ==
    Cardinality({ i \in Flagged(q) : Conv(q.options[i].text) = t })
SameFlaggedTexts(qa, qb, Conv(_)) ==
    \A t \in { Conv(qa.options[i].text) : i \in Flagged(qa) }
           \cup { Conv(qb.options[i].text) : i \in Flagged(qb) } :
        FlaggedCount(qa, Conv, t) = FlaggedCount(qb, Conv, t)
Same(text) == text

----------------------------------------------------------------------------
(* Properties of compareAnswers, under Spec *)

\* C1: every reference question is classified exactly once: after the first k
\* reference questions the three counters sum to k, and the reported total is the
\* sum of the counters and the number of reference questions.
C1_TallyCountsEveryReference ==
    /\ pc = "forEach" =>
          /\ correct + incorrect + unanswered = index
          /\ Len(verdicts) = index
    /\ summary # NoSummary =>
          /\ index = Len(file1)
          /\ summary.total = Len(file1)
          /\ summary.total = summary.correct + summary.incorrect + summary.unanswered
          /\ summary.correct = correct
          /\ summary.incorrect = incorrect
          /\ summary.unanswered = unanswered

\* a finished pass over two reference questions with the same numeral token and no
\* counterpart: both are counted
C1_Witness ==
    /\ summary # NoSummary
    /\ Len(file1) = 2
    /\ Token(file1[1].question) = Token(file1[2].question)
    /\ CounterpartsOf(file1[1]) = {}
    /\ summary.total = 2

\* C4 as stated: a matched question with a non-empty selection is Correct whenever
\* the flagged texts agree after case folding and whitespace normalization.
C4_CaseAndWhitespaceInsensitive ==
    (/\ JustProcessed
     /\ CounterpartsOf(Ref) # {}
     /\ Flagged(LastCounterpartOf(Ref)) # {}
     /\ { Normalized(Ref.options[i].text) : i \in Flagged(Ref) }
          = { Normalized(LastCounterpartOf(Ref).options[i].text) :
                i \in Flagged(LastCounterpartOf(Ref)) })
    => verdicts[index] = "correct"

\* C4 amended: a matched question with a non-empty selection is Correct whenever
\* the flagged texts agree, each as often as it is flagged, after case folding alone.
C4_CaseInsensitive ==
    (/\ JustProcessed
     /\ CounterpartsOf(Ref) # {}
     /\ Flagged(LastCounterpartOf(Ref)) # {}
     /\ SameFlaggedTexts(Ref, LastCounterpartOf(Ref), Folded))
    => verdicts[index] = "correct"

\* a Correct question whose flagged texts differ in letter case
C4_Witness ==
    /\ JustProcessed
    /\ CounterpartsOf(Ref) # {}
    /\ Flagged(LastCounterpartOf(Ref)) # {}
    /\ SameFlaggedTexts(Ref, LastCounterpartOf(Ref), Folded)
    /\ ~SameFlaggedTexts(Ref, LastCounterpartOf(Ref), Same)
    /\ verdicts[index] = "correct"

\* C5: permuting the options of the reference question or of its counterpart leaves
\* the classification unchanged, and the same flagged texts in another order are
\* Correct.
C5_OptionOrderInsensitive ==
    JustProcessed =>
        IF CounterpartsOf(Ref) = {}
        THEN \A f \in Bijections(Len(Ref.options)) :
                Classification(WithOptions(Ref, Permuted(Ref.options, f)), questionMap)
                  = verdicts[index]
        ELSE LET q2 == LastCounterpartOf(Ref)
             IN  /\ \A f \in Bijections(Len(Ref.options)),
                       g \in Bijections(Len(q2.options)) :
                       Classification(
                           WithOptions(Ref, Permuted(Ref.options, f)),
                           Token(Ref.question) :> WithOptions(q2, Permuted(q2.options, g)))
                         = verdicts[index]
                 /\ (Flagged(q2) # {} /\ SameFlaggedTexts(Ref, q2, Same))
                       => verdicts[index] = "correct"

\* a Correct question whose two flagged texts are listed in opposite orders
C5_Witness ==
    /\ JustProcessed
    /\ CounterpartsOf(Ref) # {}
    /\ verdicts[index] = "correct"
    /\ Len(getCorrectAnswerTexts(Ref)) = 2
    /\ getCorrectAnswerTexts(Ref)[1] # getCorrectAnswerTexts(Ref)[2]
    /\ getCorrectAnswerTexts(LastCounterpartOf(Ref))
         = <<getCorrectAnswerTexts(Ref)[2], getCorrectAnswerTexts(Ref)[1]>>

\* C6: the callback increments unanswered, and neither other counter, exactly when
\* the reference question has no counterpart or its counterpart has no flagged
\* option; otherwise it increments correct or incorrect.
C6_UnansweredIffNoSelection ==
    [][index' = index + 1 =>
         LET q1 == file1[index']
         IN  IF CounterpartsOf(q1) = {} \/ Flagged(LastCounterpartOf(q1)) = {}
             THEN /\ unanswered' = unanswered + 1
                  /\ correct' = correct
                  /\ incorrect' = incorrect
             ELSE /\ unanswered' = unanswered
                  /\ correct' + incorrect' = correct + incorrect + 1]_vars

\* an Unanswered question whose reference flags no option either
C6_Witness ==
    /\ JustProcessed
    /\ CounterpartsOf(Ref) # {}
    /\ Flagged(LastCounterpartOf(Ref)) = {}
    /\ Flagged(Ref) = {}
    /\ unanswered >= 1
    /\ verdicts[index] = "unanswered"

\* the last question of each numeral token in a submitted list
LastOfTokens(f2) ==
    { <<Token(f2[i].question), f2[i]>> :
        i \in { k \in 1..Len(f2) :
                  \A j \in (k + 1)..Len(f2) : Token(f2[j].question) # Token(f2[k].question) } }

\* C8: a reference question is compared against the last submitted question with its
\* numeral token, wherever it stands, and a reordering of the submitted list that
\* keeps the last question of every token changes no classification.
C8_LastCounterpartWins ==
    (JustProcessed /\ CounterpartsOf(Ref) # {}) =>
        /\ verdicts[index]
             = Classification(Ref, Token(Ref.question) :> LastCounterpartOf(Ref))
        /\ \A f \in Bijections(Len(file2)) :
              LastOfTokens(Permuted(file2, f)) = LastOfTokens(file2)
                => Classification(Ref, QuestionMap(Permuted(file2, f))) = verdicts[index]

\* two submitted questions share the token, the last of them stands at another
\* position than the reference question, and the first of them would have given
\* another classification
C8_Witness ==
    /\ JustProcessed
    /\ Cardinality(CounterpartsOf(Ref)) = 2
    /\ Max(CounterpartsOf(Ref)) # index
    /\ Classification(Ref, Token(Ref.question) :> file2[1]) # verdicts[index]

\* C9 as stated: the block of an Unanswered question shows the reference question's
\* text and the reference question's option texts, and nothing is shown when the
\* flag is set.
C9_UnansweredBlockShowsReference ==
    /\ (JustProcessed /\ verdicts[index] = "unanswered" /\ ~suppressUnansweredLog) =>
          /\ console # <<>>
          /\ console[Len(console)].tag = "[U]"
          /\ console[Len(console)].question = Ref.question
          /\ console[Len(console)].options
               = [i \in 1..Len(Ref.options) |-> Ref.options[i].text]
    /\ suppressUnansweredLog => \A i \in 1..Len(console) : console[i].tag # "[U]"

\* the run over the first k reference questions under the flag sup
RECURSIVE RunWith(_, _)
RunWith(sup, k) ==
    IF k = 0 THEN [correct |-> 0, incorrect |-> 0, unanswered |-> 0, console |-> <<>>]
    ELSE LET r == RunWith(sup, k - 1)
             c == Counter(Classification(file1[k], questionMap))
         IN  [correct |-> r.correct + (IF c = "correct" THEN 1 ELSE 0),
              incorrect |-> r.incorrect + (IF c = "incorrect" THEN 1 ELSE 0),
              unanswered |-> r.unanswered + (IF c = "unanswered" THEN 1 ELSE 0),
              console |-> r.console \o Emission(file1[k], questionMap, sup)]

WithoutUnanswered(out) == SelectSeq(out, LAMBDA b : b.tag \notin {"[U]", "Summary"})
CountOf(seq, Test(_)) == Cardinality({ i \in 1..Len(seq) : Test(seq[i]) })
IsWarning(b) == b.tag = "[!]"
IsIncorrectBlock(b) == b.tag = "[X]"
IsMissing(v) == v = "missing"
IsIncorrect(v) == v = "incorrect"

\* C10: the run under the other value of the flag has the same counters, summary,
\* Incorrect blocks and missing-counterpart warnings in the same order; every
\* question without counterpart has its warning, and Correct questions show nothing.
C10_FlagOnlyHidesUnanswered ==
    pc \in {"forEach", "returned"} =>
        LET other == RunWith(~suppressUnansweredLog, index)
        IN  /\ correct = other.correct
            /\ incorrect = other.incorrect
            /\ unanswered = other.unanswered
            /\ WithoutUnanswered(console) = WithoutUnanswered(other.console)
            /\ summary # NoSummary =>
                  summary = SummaryTable(other.correct, other.incorrect, other.unanswered)
            /\ CountOf(console, IsWarning) = CountOf(verdicts, IsMissing)
            /\ CountOf(console, IsIncorrectBlock) = CountOf(verdicts, IsIncorrect)
            /\ Len(WithoutUnanswered(console))
                 = CountOf(verdicts, IsMissing) + CountOf(verdicts, IsIncorrect)

\* a finished run with the flag set that met a question without counterpart and an
\* Unanswered one
C10_Witness ==
    /\ pc = "returned"
    /\ suppressUnansweredLog
    /\ \E i, j \in 1..Len(verdicts) : verdicts[i] = "missing" /\ verdicts[j] = "unanswered"
    /\ CountOf(console, IsWarning) = 1
    /\ summary.unanswered = 2

----------------------------------------------------------------------------
(* Properties of parseFile, under SpecParse *)

\* a question-start line: digits, '.', blank, a body ending in '?' or ':', then the
\* end of the line or an inline option
IsQuestionStart(line) ==
    LET n == LeadingDigits(line)
    IN  /\ n >= 1
        /\ Len(line) >= n + 2
        /\ line[n + 1] = "."
        /\ IsSpace(line[n + 2])
        /\ \E e \in (n + 3)..Len(line) :
              /\ line[e] \in {"?", ":"}
              /\ LET rest == Drop(line, e + LeadingSpaces(Drop(line, e)))
                 IN  rest = <<>> \/ (Len(rest) >= 2 /\ rest[1] = "A" /\ rest[2] = ".")

\* a standalone option line: a capital letter, '.', blank, body and marker
IsOptionLine(line) ==
    Len(line) >= 3 /\ IsUpper(line[1]) /\ line[2] = "." /\ IsSpace(line[3])

OptionCount(qs) ==
    LET RECURSIVE Sum(_)
        Sum(k) == IF k = 0 THEN 0 ELSE Len(qs[k].options) + Sum(k - 1)
    IN  Sum(Len(qs))

\* C2 as stated: every question-start line opens a Question, with or without an
\* inline option, and every standalone option line after a question-start line is
\* appended to the open Question; an option line before any question is ignored.
C2_OptionLinesAccumulate ==
    pc = "parsed" =>
        /\ Len(questions) = Cardinality({ i \in 1..Len(lines) : IsQuestionStart(lines[i]) })
        /\ OptionCount(questions)
             >= Cardinality({ i \in 1..Len(lines) :
                                /\ IsOptionLine(lines[i])
                                /\ \E j \in 1..(i - 1) : IsQuestionStart(lines[j]) })
        /\ (\A i \in 1..Len(lines) : ~IsQuestionStart(lines[i])) => questions = <<>>

HasSentinel(text) ==
    \E i \in 1..(Len(text) - 3) : SubSeq(text, i, i + 3) = Sentinel

\* the '=' characters of the lines that gave a Question
MarkersOf(line) == Cardinality({ i \in 1..Len(line) : line[i] = "=" })
RECURSIVE MarkersSeen(_)
MarkersSeen(k) ==
    IF k = 0 THEN 0
    ELSE (IF MatchQuestion(lines[k]).matched THEN MarkersOf(lines[k]) ELSE 0)
         + MarkersSeen(k - 1)
RECURSIVE FlaggedSeen(_)
FlaggedSeen(k) ==
    IF k = 0 THEN 0 ELSE Cardinality(Flagged(questions[k])) + FlaggedSeen(k - 1)

\* C3 as stated: the stored text of every Option is its label and body alone, with
\* no sentinel and no trailing ';' or '=', the same whether or not the option was
\* marked; isCorrect holds exactly for the options whose token ended with '='.
C3_StoredTextIsLabelAndBody ==
    /\ \A k \in 1..Len(questions) : \A i \in 1..Len(questions[k].options) :
          LET text == questions[k].options[i].text
          IN  /\ ~HasSentinel(text)
              /\ text[Len(text)] \notin {";", "="}
              /\ text \in {OptA(<<>>), OptB(<<>>)}
    /\ FlaggedSeen(Len(questions)) = MarkersSeen(lineIdx)

----------------------------------------------------------------------------
(* Properties of main, under SpecMain *)

Called(name) == \E i \in 1..Len(calls) : calls[i] = name

\* the first directory= argument names a path
DirectoryGiven ==
    \E i \in 1..Len(argv) :
        /\ argv[i] = "directory=docs"
        /\ \A j \in 1..(i - 1) : argv[j] # "directory="

\* arguments were given and the directory or one of the two files is not there
ValidationFails ==
    /\ Len(argv) > 0
    /\ \/ ~DirectoryGiven
       \/ dirState # "dir"
       \/ qFile = "missing"
       \/ aFile = "missing"

\* C7: compareAnswers is called only after the directory was validated, both files
\* were found and both parseFile calls returned; a failed validation ends the
\* process with a nonzero status before any parseFile call; a failed extraction
\* leaves compareAnswers uncalled and the summary unwritten.
C7_CompareOnlyAfterValidationAndParsing ==
    /\ Called("compareAnswers") =>
          /\ DirectoryGiven
          /\ dirState = "dir"
          /\ qFile = "ok"
          /\ aFile = "ok"
          /\ calls = <<"parseFile(questions.docx)", "parseFile(answers.docx)",
                       "compareAnswers">>
          /\ file1 = ParseLines(<<>>, doc1)
          /\ file2 = ParseLines(<<>>, doc2)
    /\ ValidationFails =>
          /\ calls = <<>>
          /\ pc \in {"main", "folder", "directory", "files", "exited"}
          /\ pc = "exited" => exitCode = 1
    /\ (qFile # "ok" \/ aFile # "ok") =>
          /\ ~Called("compareAnswers")
          /\ summary = NoSummary

\* a run that validated, parsed both documents and wrote the summary of a question
C7_Witness ==
    /\ pc = "exited"
    /\ exitCode = 0
    /\ Called("compareAnswers")
    /\ summary # NoSummary
    /\ summary.total >= 1

====
